---- MODULE Spec2Model ----
(***************************************************************************)
(* A model of telegram-downloader-bot (src/bot.py): the link-detection ->  *)
(* reel-id extraction -> external resolution pipeline, the two adapters    *)
(* that call it on one asyncio event loop, and the process lifecycle.      *)
(*                                                                         *)
(* Strings are TLA+ strings, scanned character by character with SubSeq.   *)
(* A Python value (a decoded JSON value, a message text, None) is a pair   *)
(* <<kind, payload>>.                                                      *)
(***************************************************************************)
EXTENDS Integers, Sequences, FiniteSets, TLC

VARIABLES
    \* ---- one invocation of process_instagram_link ----
    text,          \* the argument `text`
    api_key,       \* os.environ's RAPID_API_KEY: [set, value]
    pc,            \* "start" | "waiting" (inside conn.getresponse()) | "done"
    requests,      \* number of conn.request calls issued by this invocation
    reel_sent,     \* the shortcode of the request payload ("" when none was sent)
    outcome,       \* what the external call produced
    fetch_state,   \* fetch_reel_data: "none" | "returned" | "raised"
    api_response,  \* the value fetch_reel_data returned
    reply,         \* the value process_instagram_link returned
    pipe_raised,   \* an exception escaped process_instagram_link
    \* ---- the adapters' requests on the event loop ----
    tasks,         \* task id -> the request's record
    running,       \* the task that holds the event-loop thread, 0 when the loop is idle
    \* ---- process lifecycle (main / run_all) ----
    life           \* the record of run_all and the two adapter tasks

pipeVars == <<text, api_key, pc, requests, reel_sent, outcome, fetch_state,
              api_response, reply, pipe_raised>>
loopVars == <<tasks, running>>
lifeVars == <<life>>
vars == <<pipeVars, loopVars, lifeVars>>

-----------------------------------------------------------------------------
(* Bounds *)

\* Message texts are concatenations of at most MaxTokens tokens.
MaxTokens == 3
\* JSON arrays of a response body hold at most MaxItems elements.
MaxItems == 1
\* Requests the adapters handle on the event loop.
NTasks == 2
\* Shutdown signals delivered to the process.
MaxSignals == 2

-----------------------------------------------------------------------------
(* Characters and strings *)

UpperLetters == "ABCDEFGHIJKLMNOPQRSTUVWXYZ"
LowerLetters == "abcdefghijklmnopqrstuvwxyz"
Digits == "0123456789"

At(s, i) == SubSeq(s, i, i)
CharsOf(s) == {At(s, i) : i \in 1..Len(s)}

LowerOf == [c \in CharsOf(UpperLetters) |->
              At(LowerLetters, CHOOSE i \in 1..26 : At(UpperLetters, i) = c)]
WordChars == CharsOf(UpperLetters) \cup CharsOf(LowerLetters) \cup CharsOf(Digits) \cup {"_"}
SpaceChars == {" ", "\t", "\n", "\r", "\f"}

\* re.IGNORECASE: the subject is folded to lower case and compared with the
\* pattern's literals, which are lower case.
LowerChar(c) == IF c \in DOMAIN LowerOf THEN LowerOf[c] ELSE c

RECURSIVE LowerStr(_)
LowerStr(s) == IF s = "" THEN "" ELSE LowerChar(Head(s)) \o LowerStr(Tail(s))

\* \S
IsNonSpace(c) == c \notin SpaceChars
\* [\w-]
IsIdChar(c) == c \in WordChars \cup {"-"}

\* The literal `lit` stands in `s` at position `i`.
LitAt(s, i, lit) ==
    /\ i >= 1
    /\ i + Len(lit) - 1 <= Len(s)
    /\ SubSeq(s, i, i + Len(lit) - 1) = lit

SetMin(S) == CHOOSE x \in S : \A y \in S : x <= y

\* The last position of the greedy run \S* that starts at i (i - 1 when empty).
NonSpaceRunEnd(s, i) ==
    LET stops == {j \in i..Len(s) : ~IsNonSpace(At(s, j))}
    IN  IF stops = {} THEN Len(s) ELSE SetMin(stops) - 1

\* The last position of the greedy run [\w-]* that starts at i (i - 1 when empty).
IdRunEnd(s, i) ==
    LET stops == {j \in i..Len(s) : ~IsIdChar(At(s, j))}
    IN  IF stops = {} THEN Len(s) ELSE SetMin(stops) - 1

-----------------------------------------------------------------------------
(* Python values *)

PyStr(s) == <<"str", s>>
PyNum(n) == <<"num", n>>
PyNone == <<"null", 0>>
PyList(items) == <<"list", items>>
\* a dict is the sequence of its <<key, value>> pairs, keys distinct
PyDict(pairs) == <<"dict", pairs>>

Kind(v) == v[1]
Payload(v) == v[2]

\* bool(v)
Truthy(v) ==
    CASE Kind(v) = "str"  -> Payload(v) # ""
      [] Kind(v) = "num"  -> Payload(v) # 0
      [] Kind(v) = "null" -> FALSE
      [] Kind(v) = "list" -> Len(Payload(v)) > 0
      [] Kind(v) = "dict" -> Len(Payload(v)) > 0

-----------------------------------------------------------------------------
(* INSTAGRAM_RE, check_instagram_link, extract_reel_id *)

\* (?:https?://)?(?:www\.)?(?:instagram\.com|instagr\.am)/ : every way the
\* optional groups and the alternation can spell the text before \S+
LinkPrefixes ==
    {a \o b \o h \o "/" : a \in {"", "http://", "https://"},
                          b \in {"", "www."},
                          h \in {"instagram.com", "instagr.am"}}

\* INSTAGRAM_RE matches at position i of s, whose case-folded form is `folded`:
\* one spelling of the prefix stands there and a first \S follows it.
InstagramMatchesAt(s, folded, i) ==
    \E p \in LinkPrefixes :
        /\ LitAt(folded, i, p)
        /\ i + Len(p) <= Len(s)
        /\ IsNonSpace(At(s, i + Len(p)))

\* The spans <<first, last>> of all matches of INSTAGRAM_RE in s: the greedy
\* \S+ runs to the next white space.
InstagramLinks(s) ==
    LET folded == LowerStr(s)
    IN  {<<i, NonSpaceRunEnd(s, i)>> :
            i \in {j \in 1..Len(s) : InstagramMatchesAt(s, folded, j)}}

\* INSTAGRAM_RE.search(s): the span of the leftmost match, <<0, 0>> when none.
InstagramSearch(s) ==
    LET links == InstagramLinks(s)
    IN  IF links = {} THEN <<0, 0>>
        ELSE CHOOSE m \in links : \A n \in links : m[1] <= n[1]

\* check_instagram_link(text): bool(INSTAGRAM_RE.search(text or "")).
\* re.search raises TypeError on anything that is not a string.
check_instagram_link(v) ==
    LET arg == IF Truthy(v) THEN v ELSE PyStr("")
    IN  IF Kind(arg) # "str"
        THEN [raised |-> TRUE, value |-> FALSE]
        ELSE [raised |-> FALSE, value |-> InstagramSearch(Payload(arg)) # <<0, 0>>]

\* re.search(r"/reel/([\w-]+)/", s): the span <<first, last>> of the leftmost
\* match, <<0, 0>> when none. The greedy [\w-]+ must be followed by "/".
ReelSearch(s) ==
    LET ok(i) == /\ LitAt(s, i, "/reel/")
                 /\ LET e == IdRunEnd(s, i + 6)
                    IN  e >= i + 6 /\ e + 1 <= Len(s) /\ At(s, e + 1) = "/"
        starts == {i \in 1..Len(s) : ok(i)}
    IN  IF starts = {} THEN <<0, 0>>
        ELSE <<SetMin(starts), IdRunEnd(s, SetMin(starts) + 6) + 1>>

\* extract_reel_id(url): match.group(1), or "" when there is no match.
extract_reel_id(s) ==
    LET m == ReelSearch(s)
    IN  IF m = <<0, 0>> THEN "" ELSE SubSeq(s, m[1] + 6, m[2] - 1)

-----------------------------------------------------------------------------
(* The external service's answers and fetch_reel_data *)

\* v[key] as Python evaluates it: <<"ok", value>> or <<"exc", exception name>>.
Subscript(v, key) ==
    CASE Kind(v) = "list" ->
            IF Kind(key) # "num" THEN <<"exc", "TypeError">>
            ELSE IF Payload(key) + 1 \in 1..Len(Payload(v))
                 THEN <<"ok", Payload(v)[Payload(key) + 1]>>
                 ELSE <<"exc", "IndexError">>
      [] Kind(v) = "dict" ->
            LET hits == {i \in 1..Len(Payload(v)) : Payload(v)[i][1] = key}
            IN  IF hits = {} THEN <<"exc", "KeyError">>
                ELSE <<"ok", Payload(v)[CHOOSE i \in hits : TRUE][2]>>
      [] Kind(v) = "str" ->
            IF Kind(key) # "num" THEN <<"exc", "TypeError">>
            ELSE IF Payload(key) + 1 \in 1..Len(Payload(v))
                 THEN <<"ok", PyStr(At(Payload(v), Payload(key) + 1))>>
                 ELSE <<"exc", "IndexError">>
      [] Kind(v) \in {"num", "null"} -> <<"exc", "TypeError">>

\* a[k1][k2]...: the first exception ends the chain.
RECURSIVE SubscriptChain(_, _)
SubscriptChain(v, keys) ==
    IF keys = <<>> THEN <<"ok", v>>
    ELSE LET r == Subscript(v, Head(keys))
         IN  IF r[1] = "exc" THEN r ELSE SubscriptChain(r[2], Tail(keys))

\* Elements that fill a list after its first one.
Fillers == {PyNone, PyDict(<<>>)}

\* Lists of at most n elements: the first of S, the later ones fillers.
ListsUpTo(S, n) ==
    {<<>>} \cup UNION {{<<x>> \o rest : x \in S, rest \in [1..(k - 1) -> Fillers]} : k \in 1..n}

MediaUrl == "http://cdn/video.mp4"

\* Decoded response bodies: the documented shape [{"urls": [{"url": <string>}]}]
\* and, at every level of it, values of another type, empty containers and
\* dicts without the expected key.
UrlValues == {PyStr(MediaUrl), PyStr(""), PyNum(5), PyNone, PyList(<<>>)}
UrlEntries ==
    {PyDict(<<<<PyStr("url"), v>>>>) : v \in UrlValues}
        \cup {PyDict(<<>>), PyDict(<<<<PyStr("link"), PyStr(MediaUrl)>>>>), PyStr("x"), PyNone}
UrlsValues ==
    {PyList(l) : l \in ListsUpTo(UrlEntries, MaxItems)}
        \cup {PyDict(<<>>), PyStr("x"), PyNum(5), PyNone}
Elements ==
    {PyDict(<<<<PyStr("urls"), u>>>>) : u \in UrlsValues}
        \cup {PyDict(<<>>), PyDict(<<<<PyStr("error"), PyStr("x")>>>>), PyStr("x"), PyNone}
Bodies ==
    {PyList(l) : l \in ListsUpTo(Elements, MaxItems)}
        \cup {PyDict(<<>>), PyDict(<<<<PyStr("urls"), PyList(<<>>)>>>>),
              PyStr("x"), PyStr(""), PyNum(5), PyNone}

\* What conn.request / conn.getresponse / res.read give fetch_reel_data:
\*   transport_error  the connection or the read raised
\*   not_utf8         a body json.loads cannot decode as text (UnicodeDecodeError)
\*   not_json         a body that is text but not JSON (json.JSONDecodeError)
\*   json             a body that decodes to `value`
Outcomes ==
    {[kind |-> k, value |-> PyNone] : k \in {"transport_error", "not_utf8", "not_json"}}
        \cup {[kind |-> "json", value |-> v] : v \in Bodies}

NoOutcome == [kind |-> "none", value |-> PyNone]

\* The exception classes of the handlers of lines 94-102, in order.
\* `except Exception` catches every exception the try block can raise.
FetchHandler(exc) ==
    CASE exc = "JSONDecodeError" -> "Error decoding API response"
      [] exc = "KeyError"        -> "Error processing API response"
      [] OTHER                   -> "Error processing API response"

\* fetch_reel_data with the catch-all handler of lines 100-102 left out:
\* only json.JSONDecodeError and KeyError are caught.
fetch_reel_data_NoCatchAll(o) ==
    IF o.kind = "transport_error"
    THEN [raised |-> TRUE, value |-> PyNone]
    ELSE IF o.kind = "not_json"
    THEN [raised |-> FALSE, value |-> PyStr(FetchHandler("JSONDecodeError"))]
    ELSE IF o.kind = "not_utf8"
    THEN [raised |-> TRUE, value |-> PyNone]
    ELSE LET r == SubscriptChain(o.value,
                      <<PyNum(0), PyStr("urls"), PyNum(0), PyStr("url")>>)
         IN  IF r[1] = "ok"
             THEN [raised |-> FALSE, value |-> r[2]]
             ELSE IF r[2] = "KeyError"
             THEN [raised |-> FALSE, value |-> PyStr(FetchHandler(r[2]))]
             ELSE [raised |-> TRUE, value |-> PyNone]

\* fetch_reel_data once the external call has produced `o`:
\* [raised, value]; value is what the function returns.
fetch_reel_data(o) ==
    IF o.kind = "transport_error"
    THEN [raised |-> TRUE, value |-> PyNone]
    ELSE IF o.kind = "not_json"
    THEN [raised |-> FALSE, value |-> PyStr(FetchHandler("JSONDecodeError"))]
    ELSE IF o.kind = "not_utf8"
    THEN [raised |-> FALSE, value |-> PyStr(FetchHandler("UnicodeDecodeError"))]
    ELSE LET r == SubscriptChain(o.value,
                      <<PyNum(0), PyStr("urls"), PyNum(0), PyStr("url")>>)
         IN  IF r[1] = "ok"
             THEN [raised |-> FALSE, value |-> r[2]]
             ELSE [raised |-> FALSE, value |-> PyStr(FetchHandler(r[2]))]

\* str(v), as an f-string renders a value
RECURSIVE PyRepr(_)
RECURSIVE PyJoin(_)
PyJoin(items) ==
    IF items = <<>> THEN ""
    ELSE PyRepr(Head(items)) \o (IF Len(items) > 1 THEN ", " ELSE "") \o PyJoin(Tail(items))
PyRepr(v) ==
    CASE Kind(v) = "str"  -> "'" \o Payload(v) \o "'"
      [] Kind(v) = "num"  -> ToString(Payload(v))
      [] Kind(v) = "null" -> "None"
      [] Kind(v) = "list" -> "[" \o PyJoin(Payload(v)) \o "]"
      [] Kind(v) = "dict" ->
            "{" \o PyJoin([i \in 1..Len(Payload(v)) |->
                     PyStr(PyRepr(Payload(v)[i][1]) \o ": " \o PyRepr(Payload(v)[i][2]))]) \o "}"
PyFormat(v) == IF Kind(v) = "str" THEN Payload(v) ELSE PyRepr(v)

-----------------------------------------------------------------------------
(* process_instagram_link *)

KeyMissing(key) == ~key.set \/ key.value = ""

\* process_instagram_link with the link test moved before the key test.
ProcessPrefix_LinkBeforeKey(t, key) ==
    LET found == check_instagram_link(t)
    IN  IF found.raised
        THEN [next |-> "raise", reply |-> "", reel_id |-> ""]
        ELSE IF ~found.value
        THEN [next |-> "return", reply |-> "No Instagram link detected", reel_id |-> ""]
        ELSE IF KeyMissing(key)
        THEN [next |-> "return", reply |-> "RapidAPI key is not configured.", reel_id |-> ""]
        ELSE LET reel_id == extract_reel_id(Payload(t))
             IN  IF reel_id = ""
                 THEN [next |-> "return", reply |-> "Reel ID not found", reel_id |-> ""]
                 ELSE [next |-> "fetch", reply |-> "", reel_id |-> reel_id]

\* Lines 115-124, up to the call of fetch_reel_data:
\*   [next |-> "return", reply]   a short-circuit reply
\*   [next |-> "raise"]           an exception escapes
\*   [next |-> "fetch", reel_id]  fetch_reel_data(reel_id, key) is called
ProcessPrefix(t, key) ==
    IF KeyMissing(key)
    THEN [next |-> "return", reply |-> "RapidAPI key is not configured.", reel_id |-> ""]
    ELSE LET found == check_instagram_link(t)
         IN  IF found.raised
             THEN [next |-> "raise", reply |-> "", reel_id |-> ""]
             ELSE IF ~found.value
             THEN [next |-> "return", reply |-> "No Instagram link detected", reel_id |-> ""]
             ELSE LET reel_id == extract_reel_id(Payload(t))
                  IN  IF reel_id = ""
                      THEN [next |-> "return", reply |-> "Reel ID not found", reel_id |-> ""]
                      ELSE [next |-> "fetch", reply |-> "", reel_id |-> reel_id]

\* Lines 126-131: the reply once fetch_reel_data has returned or raised.
ProcessSuffix(f) ==
    IF f.raised THEN "Error fetching data from RapidAPI"
    ELSE "Extracted URL: " \o PyFormat(f.value)

-----------------------------------------------------------------------------
(* Inputs of one invocation *)

\* The pieces message texts are put together from: a scheme, the www prefix,
\* the two hosts (one in mixed case and with a path that is no reel), another
\* host, a reel path with and without its trailing slash, a slash, a space.
Tokens ==
    {"https://", "www.", "instagram.com", "InstaGr.am/p/x", "evil.com",
     "/reel/Ab-1/", "/reel/x_2", "/", " "}

RECURSIVE TextsOfLen(_)
TextsOfLen(n) ==
    IF n = 0 THEN {""} ELSE {t \o k : t \in TextsOfLen(n - 1), k \in Tokens}

Texts == UNION {TextsOfLen(n) : n \in 0..MaxTokens}

\* Arguments that are not strings (the annotation `text: str` is not enforced).
NonStringTexts == {PyNone, PyNum(5), PyList(<<PyNum(5)>>)}

\* RAPID_API_KEY: unset, set to the empty string, set
Keys == {[set |-> FALSE, value |-> ""], [set |-> TRUE, value |-> ""],
         [set |-> TRUE, value |-> "secret"]}
ConfiguredKey == [set |-> TRUE, value |-> "secret"]

-----------------------------------------------------------------------------
(* Idle values of the parts a specification does not exercise *)

NoTasks == <<>>
NoLife == [run_all |-> "off", telegram |-> "off", http |-> "off",
           enable_telegram |-> FALSE, enable_http |-> FALSE,
           stop_event |-> FALSE, signals |-> 0, gather_error |-> FALSE]
PipeIdle ==
    /\ text = PyNone /\ api_key = ConfiguredKey /\ pc = "off" /\ requests = 0
    /\ reel_sent = "" /\ outcome = NoOutcome /\ fetch_state = "none"
    /\ api_response = PyNone /\ reply = "" /\ pipe_raised = FALSE

-----------------------------------------------------------------------------
(* Spec: one call of process_instagram_link(text) *)

Init ==
    /\ text \in {PyStr(t) : t \in Texts} \cup NonStringTexts
    /\ api_key \in Keys
    /\ pc = "start"
    /\ requests = 0
    /\ reel_sent = ""
    /\ outcome = NoOutcome
    /\ fetch_state = "none"
    /\ api_response = PyNone
    /\ reply = ""
    /\ pipe_raised = FALSE
    /\ tasks = NoTasks /\ running = 0
    /\ life = NoLife

\* process_instagram_link up to its first return, or into conn.request /
\* conn.getresponse of fetch_reel_data (lines 115-127, 71-83).
Invoke ==
    /\ pc = "start"
    /\ LET p == ProcessPrefix(text, api_key)
       IN  \/ /\ p.next = "return"
              /\ reply' = p.reply
              /\ pc' = "done"
              /\ UNCHANGED <<requests, reel_sent, pipe_raised>>
           \/ /\ p.next = "raise"
              /\ pipe_raised' = TRUE
              /\ pc' = "done"
              /\ UNCHANGED <<requests, reel_sent, reply>>
           \/ /\ p.next = "fetch"
              /\ requests' = requests + 1
              /\ reel_sent' = p.reel_id
              /\ pc' = "waiting"
              /\ UNCHANGED <<reply, pipe_raised>>
    /\ UNCHANGED <<text, api_key, outcome, fetch_state, api_response>>
    /\ UNCHANGED <<loopVars, lifeVars>>

\* Respond with a retry: a call that raised is issued again.
Respond_Retry ==
    /\ pc = "waiting"
    /\ \E o \in Outcomes :
          LET f == fetch_reel_data(o)
          IN  /\ outcome' = o
              /\ fetch_state' = IF f.raised THEN "raised" ELSE "returned"
              /\ api_response' = f.value
              /\ IF f.raised
                 THEN requests' = requests + 1 /\ pc' = "waiting" /\ reply' = reply
                 ELSE requests' = requests /\ pc' = "done" /\ reply' = ProcessSuffix(f)
    /\ UNCHANGED <<text, api_key, reel_sent, pipe_raised>>
    /\ UNCHANGED <<loopVars, lifeVars>>

\* The external call ends with outcome o; fetch_reel_data maps it and
\* process_instagram_link returns (lines 83-102, 128-131).
Respond ==
    /\ pc = "waiting"
    /\ \E o \in Outcomes :
          LET f == fetch_reel_data(o)
          IN  /\ outcome' = o
              /\ fetch_state' = IF f.raised THEN "raised" ELSE "returned"
              /\ api_response' = f.value
              /\ reply' = ProcessSuffix(f)
              /\ pc' = "done"
    /\ UNCHANGED <<text, api_key, requests, reel_sent, pipe_raised>>
    /\ UNCHANGED <<loopVars, lifeVars>>

Next == Invoke \/ Respond

Spec == Init /\ [][Next]_vars

-----------------------------------------------------------------------------
(* Properties of one invocation *)

HasPrefix(s, p) == Len(s) >= Len(p) /\ SubSeq(s, 1, Len(p)) = p

IsStringText == Kind(text) = "str"
HasLink == IsStringText /\ InstagramSearch(Payload(text)) # <<0, 0>>
HasReelId == IsStringText /\ extract_reel_id(Payload(text)) # ""

DictHas(v, k) == Kind(v) = "dict" /\ \E i \in 1..Len(Payload(v)) : Payload(v)[i][1] = PyStr(k)
DictGet(v, k) == Payload(v)[CHOOSE i \in 1..Len(Payload(v)) : Payload(v)[i][1] = PyStr(k)][2]
NonEmptyList(v) == Kind(v) = "list" /\ Len(Payload(v)) > 0

\* The body has a value at [0]["urls"][0]["url"].
HasUrlField(v) ==
    /\ NonEmptyList(v)
    /\ DictHas(Payload(v)[1], "urls")
    /\ NonEmptyList(DictGet(Payload(v)[1], "urls"))
    /\ DictHas(Payload(DictGet(Payload(v)[1], "urls"))[1], "url")
UrlField(v) == DictGet(Payload(DictGet(Payload(v)[1], "urls"))[1], "url")
\* The body has the shape [{"urls": [{"url": <string>}]}].
HasShape(v) == HasUrlField(v) /\ Kind(UrlField(v)) = "str"

WitnessText == PyStr("www.instagram.com/reel/Ab-1/")

\* C1: for a string text the reply is that of the first rule that applies, in
\* the order key missing, no Instagram link, no reel id; the external service
\* is called only when none of the three applies.
PipelineRuleOrder ==
    (IsStringText /\ pc # "start") =>
        IF KeyMissing(api_key)
        THEN pc = "done" /\ reply = "RapidAPI key is not configured." /\ requests = 0
        ELSE IF ~HasLink
        THEN pc = "done" /\ reply = "No Instagram link detected" /\ requests = 0
        ELSE IF ~HasReelId
        THEN pc = "done" /\ reply = "Reel ID not found" /\ requests = 0
        ELSE requests = 1 /\ reel_sent # ""
                /\ reply \notin {"RapidAPI key is not configured.",
                                 "No Instagram link detected", "Reel ID not found"}

\* C1 witness: the key is missing and the text holds a reel link; the reply is
\* the key rule's.
PipelineRuleOrderWitness ==
    /\ pc = "done" /\ KeyMissing(api_key) /\ text = WitnessText /\ HasLink /\ HasReelId
    /\ reply = "RapidAPI key is not configured."

\* C2: when the resolver ends in a failure (body not JSON, expected shape
\* missing) the reply is that failure's fixed string, and the reply has the
\* form "Extracted URL: ..." only when the resolver found a media URL.
ResolverFailureReply ==
    (pc = "done" /\ fetch_state = "returned") =>
        /\ outcome.kind = "not_json" => reply = "Error decoding API response"
        /\ (outcome.kind = "json" /\ ~HasUrlField(outcome.value)) =>
              reply = "Error processing API response"
        /\ HasPrefix(reply, "Extracted URL: ") =>
              (outcome.kind = "json" /\ HasUrlField(outcome.value))

\* C3 as stated: for a string text neither fetch_reel_data nor
\* process_instagram_link ever raises, whatever the external call does.
NoComponentRaises ==
    IsStringText => (fetch_state # "raised" /\ ~pipe_raised)

\* C3 amended: for a string text process_instagram_link never raises and
\* always returns a non-empty reply; fetch_reel_data raises exactly when the
\* external call itself fails (connection/transport), and that exception is
\* turned into "Error fetching data from RapidAPI" by process_instagram_link.
RaisesOnlyOnTransportFailure ==
    IsStringText =>
        /\ ~pipe_raised
        /\ pc = "done" => reply # ""
        /\ pc = "done" => (fetch_state = "raised" <=> outcome.kind = "transport_error")
        /\ fetch_state = "raised" => reply = "Error fetching data from RapidAPI"

\* C3 witness: the external call failed, fetch_reel_data raised, the pipeline replied.
RaisesOnlyOnTransportFailureWitness ==
    /\ text = WitnessText /\ pc = "done" /\ outcome.kind = "transport_error"
    /\ fetch_state = "raised" /\ ~pipe_raised
    /\ reply = "Error fetching data from RapidAPI"

\* C5: an invocation issues at most one request: exactly one when the key is
\* present, the text has an Instagram link and a reel id is extracted, none on
\* a short-circuit path, and never a second one after a failed one.
OneRequestPerInvocation ==
    /\ requests \in {0, 1}
    /\ pc = "start" => requests = 0
    /\ pc = "waiting" => requests = 1
    /\ pc = "done" =>
          (requests = 1 <=> (~KeyMissing(api_key) /\ HasLink /\ HasReelId))

\* C5 witness: the single request failed and the invocation ended without another.
OneRequestPerInvocationWitness ==
    /\ pc = "done" /\ requests = 1 /\ outcome.kind = "transport_error"
    /\ text = WitnessText /\ ~KeyMissing(api_key)

\* The span <<first, last>> of the white-space delimited word of s around position i.
WordAround(s, i) ==
    LET before == {j \in 1..i : ~IsNonSpace(At(s, j))}
        first == IF before = {} THEN 1
                 ELSE CHOOSE j \in before : \A k \in before : k <= j
    IN  <<IF before = {} THEN 1 ELSE first + 1, NonSpaceRunEnd(s, i)>>

\* C8: the shortcode sent to the external service is the id of a /reel/<id>/
\* segment of an Instagram URL of the text: the segment lies in the same
\* white-space delimited word as a match of INSTAGRAM_RE.
ReelIdFromInstagramLink ==
    requests > 0 =>
        \E m \in InstagramLinks(Payload(text)) :
            LET w == WordAround(Payload(text), m[1])
                seg == "/reel/" \o reel_sent \o "/"
            IN  \E i \in w[1]..w[2] :
                    /\ LitAt(Payload(text), i, seg)
                    /\ i + Len(seg) - 1 <= w[2]

\* C9: fetch_reel_data maps a body that is not JSON to "Error decoding API
\* response", JSON without the shape [{"urls": [{"url": <string>}]}] to "Error
\* processing API response", and returns the url only when it is there and is
\* a string.
ResponseClassification ==
    fetch_state = "returned" =>
        /\ outcome.kind = "not_json" =>
              api_response = PyStr("Error decoding API response")
        /\ (outcome.kind = "json" /\ ~HasShape(outcome.value)) =>
              api_response = PyStr("Error processing API response")
        /\ (outcome.kind = "json" /\ HasShape(outcome.value)) =>
              api_response = UrlField(outcome.value)

-----------------------------------------------------------------------------
(* SpecLoop: the adapters' handlers on the single-threaded event loop *)

(***************************************************************************)
(* asyncio runs one coroutine at a time; a coroutine gives the loop up     *)
(* only at an await that suspends.  `running` is the task holding the loop *)
(* thread.  fetch_reel_data is declared async but calls the synchronous    *)
(* http.client (conn.request, conn.getresponse, res.read, lines 71-84)     *)
(* without awaiting anything: the handler keeps the loop thread until the  *)
(* external service has answered.                                          *)
(***************************************************************************)

TaskIds == 1..NTasks

SampleTexts == {"hello", "https://instagram.com/p/xyz/", "https://www.instagram.com/reel/Ab-1/"}

\* update.message.text of a chat text message
ChatInputs == {[kind |-> "text", value |-> PyStr(t)] : t \in SampleTexts}

\* The body of a POST /update:
\*   invalid     not JSON (request.json() raises json.JSONDecodeError)
\*   unreadable  request.json() raises something else (undecodable bytes, a read error)
\*   json        JSON that decodes to `value`
HttpInputs ==
    {[kind |-> k, value |-> PyNone] : k \in {"invalid", "unreadable"}}
        \cup {[kind |-> "json", value |-> PyDict(<<<<PyStr("message"), PyStr(t)>>>>)] :
                 t \in SampleTexts \cup {""}}
        \cup {[kind |-> "json", value |-> v] :
                 v \in {PyDict(<<>>), PyDict(<<<<PyStr("message"), PyNum(5)>>>>),
                        PyDict(<<<<PyStr("message"), PyNone>>>>),
                        PyList(<<PyStr("https://www.instagram.com/reel/Ab-1/")>>),
                        PyStr("https://www.instagram.com/reel/Ab-1/"), PyNone}}

\* The answers of the external service the handlers are run against.
LoopOutcomes ==
    {[kind |-> k, value |-> PyNone] : k \in {"transport_error", "not_json"}}
        \cup {[kind |-> "json", value |-> v] :
                 v \in {PyList(<<PyDict(<<<<PyStr("urls"),
                                   PyList(<<PyDict(<<<<PyStr("url"), PyStr(MediaUrl)>>>>)>>)>>>>)>>),
                        PyList(<<>>)}}

IdleTask ==
    [kind |-> "none", input |-> [kind |-> "none", value |-> PyNone], pc |-> "idle",
     reply |-> "", status |-> 0, replies |-> 0, raised |-> FALSE,
     calls |-> 0, requests |-> 0]

InitLoop ==
    /\ tasks = [i \in TaskIds |-> IdleTask]
    /\ running = 0
    /\ PipeIdle
    /\ life = NoLife

\* data.get("message") of line 155: [raised, value]; only a dict has .get,
\* and a missing key gives None.
GetMessage(data) ==
    IF Kind(data) # "dict" THEN [raised |-> TRUE, value |-> PyNone]
    ELSE LET r == Subscript(data, PyStr("message"))
         IN  [raised |-> FALSE, value |-> IF r[1] = "ok" THEN r[2] ELSE PyNone]

\* The application hands a chat text message to handle_message.  The
\* application of line 185 is built with its defaults: it processes one
\* update at a time.
AcceptChat(i) ==
    /\ running = 0
    /\ tasks[i].pc = "idle"
    /\ \A j \in TaskIds : tasks[j].kind = "chat" => tasks[j].pc = "done"
    /\ \E in \in ChatInputs :
          tasks' = [tasks EXCEPT ![i] = [IdleTask EXCEPT !.kind = "chat", !.input = in,
                                                         !.pc = "accepted"]]
    /\ UNCHANGED <<running, pipeVars, lifeVars>>

\* The web server hands a POST /update to http_update.
AcceptHttp(i) ==
    /\ running = 0
    /\ tasks[i].pc = "idle"
    /\ \E in \in HttpInputs :
          tasks' = [tasks EXCEPT ![i] = [IdleTask EXCEPT !.kind = "http", !.input = in,
                                                         !.pc = "accepted"]]
    /\ UNCHANGED <<running, pipeVars, lifeVars>>

\* handle_message from its start (lines 135-138): it runs process_instagram_link
\* up to a reply, which it then awaits sending, or into the blocking call of
\* fetch_reel_data.  (message.text is a string, so process_instagram_link
\* cannot raise before the call; lines 140-141 matter for reply_text only.)
HandleMessage(i) ==
    /\ running = 0
    /\ tasks[i].kind = "chat" /\ tasks[i].pc = "accepted"
    /\ LET t == IF Truthy(tasks[i].input.value) THEN tasks[i].input.value ELSE PyStr("")
           p == ProcessPrefix(t, ConfiguredKey)
       IN  \/ /\ p.next = "return"
              /\ tasks' = [tasks EXCEPT ![i].pc = "sending", ![i].reply = p.reply,
                                        ![i].calls = 1]
              /\ running' = 0
           \/ /\ p.next = "fetch"
              /\ tasks' = [tasks EXCEPT ![i].pc = "blocked", ![i].calls = 1,
                                        ![i].requests = 1]
              /\ running' = i
    /\ UNCHANGED <<pipeVars, lifeVars>>

\* http_update from its start (lines 146-163).  An exception that leaves the
\* handler is answered by the web server itself with its own 500 response.
HttpUpdate(i) ==
    /\ running = 0
    /\ tasks[i].kind = "http" /\ tasks[i].pc = "accepted"
    /\ LET in == tasks[i].input
           msg == GetMessage(in.value)
           p == ProcessPrefix(msg.value, ConfiguredKey)
       IN  \/ /\ in.kind = "invalid"
              /\ tasks' = [tasks EXCEPT ![i].pc = "done", ![i].status = 400,
                                        ![i].reply = "Invalid JSON", ![i].replies = 1]
              /\ running' = 0
           \/ /\ in.kind = "unreadable"
              /\ tasks' = [tasks EXCEPT ![i].pc = "done", ![i].status = 500,
                                        ![i].reply = "Error while parsing JSON",
                                        ![i].replies = 1]
              /\ running' = 0
           \/ /\ in.kind = "json" /\ msg.raised
              /\ tasks' = [tasks EXCEPT ![i].pc = "done", ![i].status = 500,
                                        ![i].raised = TRUE, ![i].replies = 1]
              /\ running' = 0
           \/ /\ in.kind = "json" /\ ~msg.raised /\ ~Truthy(msg.value)
              /\ tasks' = [tasks EXCEPT ![i].pc = "done", ![i].status = 422,
                                        ![i].reply = "No message", ![i].replies = 1]
              /\ running' = 0
           \/ /\ in.kind = "json" /\ ~msg.raised /\ Truthy(msg.value)
              /\ p.next = "return"
              /\ tasks' = [tasks EXCEPT ![i].pc = "done", ![i].status = 200,
                                        ![i].reply = p.reply, ![i].replies = 1,
                                        ![i].calls = 1]
              /\ running' = 0
           \/ /\ in.kind = "json" /\ ~msg.raised /\ Truthy(msg.value)
              /\ p.next = "raise"
              /\ tasks' = [tasks EXCEPT ![i].pc = "done", ![i].status = 500,
                                        ![i].raised = TRUE, ![i].replies = 1,
                                        ![i].calls = 1]
              /\ running' = 0
           \/ /\ in.kind = "json" /\ ~msg.raised /\ Truthy(msg.value)
              /\ p.next = "fetch"
              /\ tasks' = [tasks EXCEPT ![i].pc = "blocked", ![i].calls = 1,
                                        ![i].requests = 1]
              /\ running' = i
    /\ UNCHANGED <<pipeVars, lifeVars>>

\* The external service answers the task that is blocked in conn.getresponse():
\* process_instagram_link returns; http_update returns its 200 response,
\* handle_message reaches `await update.message.reply_text(reply)`.
ExternalResponds(i) ==
    /\ running = i
    /\ tasks[i].pc = "blocked"
    /\ \E o \in LoopOutcomes :
          LET r == ProcessSuffix(fetch_reel_data(o))
          IN  \/ /\ tasks[i].kind = "http"
                 /\ tasks' = [tasks EXCEPT ![i].pc = "done", ![i].status = 200,
                                           ![i].reply = r, ![i].replies = 1]
              \/ /\ tasks[i].kind = "chat"
                 /\ tasks' = [tasks EXCEPT ![i].pc = "sending", ![i].reply = r]
    /\ running' = 0
    /\ UNCHANGED <<pipeVars, lifeVars>>

\* `await update.message.reply_text(reply)` ends (line 138): the reply was
\* delivered, or sending raised and the handler of lines 140-141 logs it.
ReplySent(i) ==
    /\ running = 0
    /\ tasks[i].kind = "chat" /\ tasks[i].pc = "sending"
    /\ \E delivered \in BOOLEAN :
          tasks' = [tasks EXCEPT ![i].pc = "done",
                                 ![i].replies = IF delivered THEN 1 ELSE 0]
    /\ UNCHANGED <<running, pipeVars, lifeVars>>

\* The steps of task i's own handler.
HandlerStep(i) == HandleMessage(i) \/ HttpUpdate(i) \/ ReplySent(i)

NextLoop ==
    \E i \in TaskIds :
        \/ AcceptChat(i)
        \/ AcceptHttp(i)
        \/ HandleMessage(i)
        \/ HttpUpdate(i)
        \/ ExternalResponds(i)
        \/ ReplySent(i)

SpecLoop == InitLoop /\ [][NextLoop]_vars

-----------------------------------------------------------------------------
(* Properties of the adapters *)

\* C4: a request an adapter has accepted ends with exactly one reply to its
\* caller, on every path.
AcceptedRequestReplied ==
    \A i \in TaskIds : tasks[i].pc = "done" => tasks[i].replies = 1

\* C6: while one invocation waits for the external service, every other
\* accepted request can go on: its handler has a step it can take.
OthersProceedWhileWaiting ==
    \A i, j \in TaskIds :
        (i # j /\ tasks[i].pc = "blocked" /\ tasks[j].pc \in {"accepted", "sending"})
            => ENABLED HandlerStep(j)

\* The `message` of a JSON body is missing or empty.
MessageMissing(v) ==
    ~DictHas(v, "message") \/ ~Truthy(DictGet(v, "message"))

\* C7: POST /update is answered by http_update with exactly one of
\* 400 "Invalid JSON" (body not valid JSON), 422 "No message" (valid JSON,
\* message missing or empty), 200 with the pipeline's reply (otherwise); the
\* pipeline runs only in the 200 case and no exception leaves the handler.
\* (Nothing is asked of the status of a body that could not be read at all.)
HttpAnswers ==
    \A i \in TaskIds :
        (tasks[i].kind = "http" /\ tasks[i].pc = "done") =>
            /\ ~tasks[i].raised
            /\ tasks[i].replies = 1
            /\ IF tasks[i].input.kind = "unreadable"
               THEN tasks[i].calls = 0
               ELSE IF tasks[i].input.kind = "invalid"
               THEN /\ tasks[i].status = 400 /\ tasks[i].reply = "Invalid JSON"
                    /\ tasks[i].calls = 0
               ELSE IF MessageMissing(tasks[i].input.value)
               THEN /\ tasks[i].status = 422 /\ tasks[i].reply = "No message"
                    /\ tasks[i].calls = 0
               ELSE /\ tasks[i].status = 200 /\ tasks[i].calls = 1
                    /\ tasks[i].reply # ""

-----------------------------------------------------------------------------
(* SpecLife: main's run_all and the two adapter tasks *)

(***************************************************************************)
(* life.telegram and life.http are the positions of run_telegram and       *)
(* run_http_server.  A call into the telegram or web library either        *)
(* returns or raises.  Signals are modelled from the moment run_telegram   *)
(* has installed signal_handler (lines 217-218).                           *)
(***************************************************************************)

TelegramFinished == {"done", "failed", "cancelled"}
HttpFinished == {"failed", "cancelled"}

InitLife ==
    /\ \E et, eh \in BOOLEAN :
          life = [NoLife EXCEPT !.run_all = "start", !.enable_telegram = et,
                                !.enable_http = eh]
    /\ PipeIdle
    /\ tasks = NoTasks /\ running = 0

\* run_all, lines 229-236: the tasks are created; with none it returns.
RunAllSpawn ==
    /\ life.run_all = "start"
    /\ life' = [life EXCEPT
                  !.telegram = IF life.enable_telegram THEN "created" ELSE "off",
                  !.http = IF life.enable_http THEN "created" ELSE "off",
                  !.run_all = IF life.enable_telegram \/ life.enable_http
                              THEN "gather" ELSE "done"]
    /\ UNCHANGED <<pipeVars, loopVars>>

\* run_telegram, lines 202-205: get_me, initialize, start; then the signal
\* handlers are installed and the task waits for stop_event.
TelegramStartup ==
    /\ life.telegram \in {"created", "got_me", "initialized"}
    /\ \E ok \in BOOLEAN :
          life' = [life EXCEPT !.telegram =
                      IF ~ok THEN "failed"
                      ELSE CASE life.telegram = "created"     -> "got_me"
                             [] life.telegram = "got_me"      -> "initialized"
                             [] life.telegram = "initialized" -> "waiting"]
    /\ UNCHANGED <<pipeVars, loopVars>>

\* SIGINT or SIGTERM arrives: signal_handler sets stop_event (lines 213-215).
Signal ==
    /\ life.run_all = "gather"
    /\ life.telegram \in {"waiting", "stopping", "updater_stopped", "app_stopped", "done"}
    /\ life.signals < MaxSignals
    /\ life' = [life EXCEPT !.stop_event = TRUE, !.signals = life.signals + 1]
    /\ UNCHANGED <<pipeVars, loopVars>>

\* run_telegram, lines 220-226: stop_event.wait() returns, then
\* app.updater.stop(), app.stop(), app.shutdown().
TelegramShutdown ==
    /\ \/ /\ life.telegram = "waiting" /\ life.stop_event
          /\ life' = [life EXCEPT !.telegram = "stopping"]
       \/ /\ life.telegram \in {"stopping", "updater_stopped", "app_stopped"}
          /\ \E ok \in BOOLEAN :
                life' = [life EXCEPT !.telegram =
                            IF ~ok THEN "failed"
                            ELSE CASE life.telegram = "stopping"        -> "updater_stopped"
                                   [] life.telegram = "updater_stopped" -> "app_stopped"
                                   [] life.telegram = "app_stopped"     -> "done"]
    /\ UNCHANGED <<pipeVars, loopVars>>

\* run_http_server, lines 190-196: runner.setup(), site.start().
HttpStartup ==
    /\ life.http \in {"created", "set_up"}
    /\ \E ok \in BOOLEAN :
          life' = [life EXCEPT !.http =
                      IF ~ok THEN "failed"
                      ELSE IF life.http = "created" THEN "set_up" ELSE "sleeping"]
    /\ UNCHANGED <<pipeVars, loopVars>>

\* run_http_server, lines 197-198: `while True: await asyncio.sleep(3600)`.
HttpSleepLoop ==
    /\ life.http \in {"sleeping", "woken"}
    /\ life' = [life EXCEPT !.http = IF life.http = "sleeping" THEN "woken" ELSE "sleeping"]
    /\ UNCHANGED <<pipeVars, loopVars>>

Spawned == {n \in {"telegram", "http"} : life[n] # "off"}

\* run_all, lines 238-243: asyncio.gather returns once every task has
\* finished, or raises the first exception of a task; either way run_all
\* logs and returns.
RunAllReturn ==
    /\ life.run_all = "gather"
    /\ \/ /\ \E n \in Spawned : life[n] = "failed"
          /\ life' = [life EXCEPT !.run_all = "done", !.gather_error = TRUE]
       \/ /\ \A n \in Spawned : life[n] = "done"
          /\ life' = [life EXCEPT !.run_all = "done"]
    /\ UNCHANGED <<pipeVars, loopVars>>

\* asyncio.run (line 251) cancels the tasks still pending once run_all has returned.
AsyncioRunCleanup ==
    /\ life.run_all = "done"
    /\ \E n \in Spawned : life[n] \notin {"done", "failed", "cancelled"}
    /\ life' = [life EXCEPT
                  !.telegram = IF life.telegram \in TelegramFinished \cup {"off"}
                               THEN life.telegram ELSE "cancelled",
                  !.http = IF life.http \in HttpFinished \cup {"off"}
                           THEN life.http ELSE "cancelled"]
    /\ UNCHANGED <<pipeVars, loopVars>>

NextLife ==
    \/ RunAllSpawn
    \/ TelegramStartup
    \/ Signal
    \/ TelegramShutdown
    \/ HttpStartup
    \/ HttpSleepLoop
    \/ RunAllReturn
    \/ AsyncioRunCleanup

\* The event loop runs every task that is ready; signals come when they come.
SpecLife ==
    /\ InitLife /\ [][NextLife]_vars
    /\ WF_vars(RunAllSpawn) /\ WF_vars(TelegramStartup) /\ WF_vars(TelegramShutdown)
    /\ WF_vars(HttpStartup) /\ WF_vars(HttpSleepLoop)
    /\ WF_vars(RunAllReturn) /\ WF_vars(AsyncioRunCleanup)

\* C10: once a shutdown signal has been received by the running Telegram
\* adapter, run_all eventually returns.
ShutdownCompletes ==
    (life.enable_telegram /\ life.stop_event) ~> (life.run_all = "done")

====
